---- MODULE Spec2Model ----
(***************************************************************************)
(* Model of the ingestion pipeline of src/app.py: the price oracle         *)
(* (get_token_prices, get_token_price_dexscreener), the chain fetchers     *)
(* (fetch_base_transactions, fetch_solana_transactions), the normalizers   *)
(* with the store's dedupe gate (process_base_transaction,                 *)
(* process_solana_transaction), the notifier (send_discord_notification)   *)
(* and the scheduler loop (monitor_transactions).                          *)
(*                                                                         *)
(* JSON null / Python None is NULL; a Python dict that may be empty is a   *)
(* function whose domain may be empty; a raised exception is a result      *)
(* record with exc # NoExc.  sqlite3 itself is taken to work (connect,     *)
(* execute and commit do not fail), the primary key on hash included.      *)
(*                                                                         *)
(* Specifications: Spec (the scheduler loop), SpecPrice, SpecDex,          *)
(* SpecFetch and SpecNorm (one function each, on every input within the    *)
(* bounds), SpecRace (several writer threads) and SpecLive (the loop when  *)
(* an upstream stops answering).                                           *)
(***************************************************************************)
EXTENDS Integers, Sequences, FiniteSets, TLC

VARIABLES
    store,            \* transactions table: hash -> row
    snapshots,        \* activity_snapshots table, in insertion order
    price_cache,      \* global price_cache (app.py:31)
    price_cache_time, \* global price_cache_time (app.py:32)
    now,              \* time.time()
    webhook,          \* DISCORD_WEBHOOK (app.py:22), fixed at start
    upstream,         \* what the two chains currently report for the wallets
    pc,               \* position of the monitor_transactions thread
    base_txs,         \* base_txs still to process in this iteration
    solana_txs,       \* solana_txs still to process in this iteration
    cycle,            \* iterations of the while loop started so far
    call,             \* the latest process_* call and what it did
    notified,         \* hashes send_discord_notification was called for, in order
    pass,             \* bookkeeping of the current and the previous iteration
    priceCall,        \* the latest get_token_prices call (price oracle runs)
    lastOk,           \* the latest successful price fetch (time and value)
    dexCall,          \* the latest get_token_price_dexscreener call
    fetchCall,        \* the latest fetch_* call
    writers           \* threads running process_base_transaction step by step

vars == <<store, snapshots, price_cache, price_cache_time, now, webhook,
          upstream, pc, base_txs, solana_txs, cycle, call, notified, pass,
          priceCall, lastOk, dexCall, fetchCall, writers>>

schedVars == <<store, snapshots, webhook, upstream, pc, base_txs, solana_txs,
               cycle, call, notified, pass, writers>>

(***************************************************************************)
(* Values                                                                  *)
(***************************************************************************)
NULL == 0 - 1
NoExc == "none"
EmptyDict == [k \in {} |-> 0]

\* Bounds of the model.
StartTime == 1000
Horizon == 620
MaxLatency == 1
MaxPriceCalls == 3

\* Program constants.
CACHE_TTL == 300
SLEEP_SECONDS == 300
SIG_LIMIT == 10

Abs(a) == IF a >= 0 THEN a ELSE 0 - a
Min(a, b) == IF a <= b THEN a ELSE b

Digits == <<"0", "1", "2", "3", "4", "5", "6", "7", "8", "9">>
\* str(n) of an int n >= 0
RECURSIVE IntToStr(_)
IntToStr(n) == IF n < 10 THEN Digits[n + 1]
               ELSE IntToStr(n \div 10) \o Digits[(n % 10) + 1]

(***************************************************************************)
(* Price oracle: get_token_prices                                          *)
(***************************************************************************)
\* What the CoinGecko request can produce: requests.get raises, a non-200
\* status, a 200 whose body is not JSON, or a 200 with a JSON object in which
\* either id may be missing (NULL).
PriceResponses ==
    {[kind |-> k, eth |-> NULL, sol |-> NULL] : k \in {"exception", "status", "badjson"}}
    \cup {[kind |-> "ok", eth |-> e, sol |-> 100] : e \in {NULL, 3000}}

Prices(e, s) == [ETH |-> e, SOL |-> s]
\* data.get(id, {}).get('usd', 0)
GetUsd(v) == IF v = NULL THEN 0 ELSE v

\* app.py:39  time.time() - price_cache_time < 300 and price_cache
UseCacheStale(cache, cacheTime, t) == (t - cacheTime <= CACHE_TTL) /\ cache # EmptyDict
UseCache(cache, cacheTime, t) == (t - cacheTime < CACHE_TTL) /\ cache # EmptyDict

\* app.py:61-65: the request failed; fall through to the last known prices.
PriceFallbackStamped(cache, cacheTime, t) ==
    [ret |-> IF cache # EmptyDict THEN cache ELSE Prices(0, 0),
     cache |-> cache, cacheTime |-> t, exc |-> NoExc]
PriceFallback(cache, cacheTime, t) ==
    [ret |-> IF cache # EmptyDict THEN cache ELSE Prices(0, 0),
     cache |-> cache, cacheTime |-> cacheTime, exc |-> NoExc]

\* app.py:34-65.  t is time.time() at line 39, t2 is time.time() at line 58.
get_token_prices(cache, cacheTime, t, t2, resp) ==
    IF UseCache(cache, cacheTime, t)
    THEN [ret |-> cache, cache |-> cache, cacheTime |-> cacheTime,
          exc |-> NoExc, requested |-> FALSE]
    ELSE IF resp.kind = "ok"
         THEN LET fresh == Prices(GetUsd(resp.eth), GetUsd(resp.sol))
              IN [ret |-> fresh, cache |-> fresh, cacheTime |-> t2,
                  exc |-> NoExc, requested |-> TRUE]
         ELSE LET f == PriceFallback(cache, cacheTime, t)
              IN [ret |-> f.ret, cache |-> f.cache, cacheTime |-> f.cacheTime,
                  exc |-> f.exc, requested |-> TRUE]

NoPriceCall == [made |-> FALSE, n |-> 0, t |-> 0, kind |-> "none", requested |-> FALSE,
                ret |-> EmptyDict, exc |-> NoExc, cacheBefore |-> EmptyDict,
                timeBefore |-> 0, okBefore |-> NULL, okValue |-> EmptyDict,
                prevFailed |-> FALSE]

\* One call of get_token_prices at the current time; the request, when one is
\* issued, takes lat seconds.
PriceCallStep(resp, lat) ==
    LET r == get_token_prices(price_cache, price_cache_time, now, now + lat, resp)
        ok == r.requested /\ resp.kind = "ok"
    IN /\ now + lat <= StartTime + Horizon
       /\ priceCall.n < MaxPriceCalls
       /\ price_cache' = r.cache
       /\ price_cache_time' = r.cacheTime
       /\ now' = IF r.requested THEN now + lat ELSE now
       /\ priceCall' = [made |-> TRUE, n |-> priceCall.n + 1, t |-> now,
                        kind |-> IF r.requested THEN resp.kind ELSE "none",
                        requested |-> r.requested, ret |-> r.ret, exc |-> r.exc,
                        cacheBefore |-> price_cache, timeBefore |-> price_cache_time,
                        okBefore |-> lastOk.time, okValue |-> lastOk.value,
                        prevFailed |-> priceCall.made /\ priceCall.requested
                                       /\ priceCall.kind # "ok"]
       /\ lastOk' = IF ok THEN [time |-> now + lat, value |-> r.ret] ELSE lastOk

PriceCall ==
    /\ \E resp \in PriceResponses, lat \in 0..MaxLatency : PriceCallStep(resp, lat)
    /\ UNCHANGED <<schedVars, dexCall, fetchCall>>

\* The clock moves on between calls.
Tick ==
    /\ \E d \in {CACHE_TTL - 1, CACHE_TTL} :
          /\ now + d <= StartTime + Horizon
          /\ now' = now + d
    /\ UNCHANGED <<schedVars, price_cache, price_cache_time, priceCall, lastOk,
                   dexCall, fetchCall>>

(***************************************************************************)
(* Initial values shared by the specifications                             *)
(***************************************************************************)
NoCall == [made |-> FALSE, fn |-> "none", hash |-> "", existed |-> FALSE,
           inserted |-> FALSE, result |-> "none", exc |-> NoExc,
           notifyCalled |-> FALSE, posted |-> FALSE, committed |-> FALSE,
           storeBefore |-> {}]
NoPass == [inserted |-> {}, notified |-> {}, snaps |-> <<>>, raised |-> NoExc,
           allOk |-> TRUE, repeat |-> FALSE, prevRaised |-> NoExc]
NoDexCall == [made |-> FALSE, pairs |-> <<>>, chain |-> "", kind |-> "none", ret |-> 0]
NoFetchCall == [made |-> FALSE, fn |-> "none", resps |-> <<>>, details |-> <<>>,
                exc |-> NoExc, ret |-> <<>>]
NoUpstream == [out |-> <<>>, inc |-> <<>>, sol |-> <<>>]

OracleInit ==
    /\ price_cache = EmptyDict
    /\ price_cache_time = 0
    /\ now = StartTime
    /\ priceCall = NoPriceCall
    /\ lastOk = [time |-> NULL, value |-> EmptyDict]

SchedIdle ==
    /\ store = {}
    /\ snapshots = <<>>
    /\ webhook = ""
    /\ upstream = NoUpstream
    /\ pc = "start"
    /\ base_txs = <<>>
    /\ solana_txs = <<>>
    /\ cycle = 0
    /\ call = NoCall
    /\ notified = <<>>
    /\ pass = NoPass
    /\ writers = <<>>

(***************************************************************************)
(* Price oracle on its own: calls of get_token_prices as the clock moves   *)
(***************************************************************************)
PriceInit == OracleInit /\ SchedIdle /\ dexCall = NoDexCall /\ fetchCall = NoFetchCall
PriceNext == PriceCall \/ Tick
SpecPrice == PriceInit /\ [][PriceNext]_vars

\* C7: within 300 seconds of the latest successful fetch (time t, strictly
\* before t+300) a call issues no upstream request and returns the value that
\* fetch stored; at or after t+300 the call issues an upstream request.
C7_CacheWindow ==
    (priceCall.made /\ priceCall.okBefore # NULL) =>
        IF priceCall.t < priceCall.okBefore + 300
        THEN ~priceCall.requested /\ priceCall.ret = priceCall.okValue
        ELSE priceCall.requested
\* A call exactly 299 seconds after a successful fetch was served from the
\* cache, and (C7_WitnessRefetch) one exactly 300 seconds after refetched.
C7_Witness ==
    /\ priceCall.made /\ priceCall.okBefore # NULL
    /\ priceCall.t = priceCall.okBefore + 299
    /\ ~priceCall.requested

\* C8: a failed upstream price fetch does not raise, returns the previous
\* cache (or ETH 0 / SOL 0 when there is none), leaves price_cache and
\* price_cache_time as they were, and so the call after a failed one issues a
\* request again.
C8_FailedFetchFallsBack ==
    /\ (priceCall.made /\ priceCall.requested /\ priceCall.kind # "ok") =>
          /\ priceCall.exc = NoExc
          /\ priceCall.ret = IF priceCall.cacheBefore # EmptyDict
                             THEN priceCall.cacheBefore ELSE Prices(0, 0)
          /\ price_cache = priceCall.cacheBefore
          /\ price_cache_time = priceCall.timeBefore
    /\ (priceCall.made /\ priceCall.prevFailed) => priceCall.requested
\* A refetch failed while an expired cache existed, after an earlier failure.
C8_Witness ==
    /\ priceCall.made /\ priceCall.requested /\ priceCall.kind \in {"exception", "status"}
    /\ priceCall.cacheBefore # EmptyDict
    /\ priceCall.prevFailed

(***************************************************************************)
(* Price oracle: get_token_price_dexscreener                               *)
(***************************************************************************)
MaxPairs == 3

ChainIds == {"base", "BASE", "solana"}
\* str.lower() on the chain identifiers that occur.
Lower(s) == CASE s = "BASE" -> "base"
              [] s = "Base" -> "base"
              [] s = "Solana" -> "solana"
              [] OTHER -> s

\* One entry of data['pairs']: liq is liquidity.usd (NULL when it is null),
\* price is priceUsd.
DexPairs == [chainId : ChainIds, liq : {1000, 5000}, price : {1, 2}]
            \cup {[chainId |-> "base", liq |-> NULL, price |-> 2]}
NoPair == [chainId |-> "", liq |-> 0, price |-> 0]

\* app.py:83  the comparison that replaces best_pair
DexBetterOrEqual(pair, best) == pair.liq >= best.liq
DexBetter(pair, best) == pair.liq > best.liq

\* app.py:80-84: the loop over pairs from index i on; best = NoPair is None.
RECURSIVE DexScan(_, _, _, _)
DexScan(pairs, chain, i, best) ==
    IF i > Len(pairs) THEN [exc |-> NoExc, best |-> best]
    ELSE LET pair == pairs[i] IN
         IF Lower(pair.chainId) # Lower(chain)
         THEN DexScan(pairs, chain, i + 1, best)
         ELSE IF best = NoPair
              THEN DexScan(pairs, chain, i + 1, pair)
              ELSE IF pair.liq = NULL \/ best.liq = NULL
                   THEN [exc |-> "TypeError", best |-> best]   \* float(None)
                   ELSE DexScan(pairs, chain, i + 1,
                                IF DexBetter(pair, best) THEN pair ELSE best)

\* app.py:67-93.  resp.kind: "exception" (requests.get raises), "status"
\* (non-200), "badjson", "nopairs" ('pairs': null) or "ok".
get_token_price_dexscreener(resp, chain) ==
    IF resp.kind \in {"exception", "status", "badjson", "nopairs"} THEN 0
    ELSE LET r == DexScan(resp.pairs, chain, 1, NoPair)
         IN IF r.exc # NoExc THEN 0
            ELSE IF r.best # NoPair THEN r.best.price
            ELSE 0

RECURSIVE SeqsUpTo(_, _)
SeqsUpTo(S, n) ==
    IF n = 0 THEN {<<>>}
    ELSE LET shorter == SeqsUpTo(S, n - 1)
         IN shorter \cup {Append(q, x) : q \in {t \in shorter : Len(t) = n - 1}, x \in S}

\* A call not yet made, on a response with up to MaxPairs pairs or on a
\* failed request.
DexInput(kind, pairs, chain) ==
    [made |-> FALSE, pairs |-> pairs, chain |-> chain, kind |-> kind, ret |-> 0]
DexInit ==
    /\ OracleInit /\ SchedIdle /\ fetchCall = NoFetchCall
    /\ \/ \E k \in 0..MaxPairs : \E ps \in [1..k -> DexPairs], c \in {"base", "Solana"} :
             dexCall = DexInput("ok", ps, c)
       \/ \E kind \in {"exception", "status", "badjson", "nopairs"} :
             dexCall = DexInput(kind, <<>>, "base")
DexApply ==
    /\ ~dexCall.made
    /\ dexCall' = [dexCall EXCEPT !.made = TRUE,
                     !.ret = get_token_price_dexscreener(dexCall, dexCall.chain)]
    /\ UNCHANGED <<schedVars, price_cache, price_cache_time, now, priceCall, lastOk,
                   fetchCall>>
DexNext == DexApply
SpecDex == DexInit /\ [][DexNext]_vars

\* The pairs of the response on the requested chain, compared case-insensitively.
DexMatching(d) == {i \in 1..Len(d.pairs) : Lower(d.pairs[i].chainId) = Lower(d.chain)}
\* C9: get_token_price_dexscreener returns 0 when the request fails, the pair
\* list is empty or no pair is on the requested chain (case-insensitively);
\* otherwise it returns the priceUsd of the earliest pair among the
\* chain-matching pairs of greatest USD liquidity, whatever the liquidity of
\* pairs on other chains (stated for pairs whose liquidity is reported).
C9_DexBestPair ==
    (dexCall.made /\ \A i \in DexMatching(dexCall) : dexCall.pairs[i].liq # NULL) =>
        IF dexCall.kind # "ok" \/ DexMatching(dexCall) = {}
        THEN dexCall.ret = 0
        ELSE \E i \in DexMatching(dexCall) :
                /\ \A j \in DexMatching(dexCall) :
                      \/ dexCall.pairs[j].liq < dexCall.pairs[i].liq
                      \/ (dexCall.pairs[j].liq = dexCall.pairs[i].liq /\ i <= j)
                /\ dexCall.ret = dexCall.pairs[i].price
\* Two base pairs tie for the greatest liquidity behind a solana pair with
\* more: the earlier base pair's price is returned.
C9_Witness ==
    /\ dexCall.made /\ dexCall.kind = "ok" /\ dexCall.chain = "base"
    /\ dexCall.pairs = <<[chainId |-> "solana", liq |-> 5000, price |-> 1],
                         [chainId |-> "BASE", liq |-> 1000, price |-> 2],
                         [chainId |-> "base", liq |-> 1000, price |-> 1]>>
    /\ dexCall.ret = 2

(***************************************************************************)
(* Raw upstream records                                                    *)
(***************************************************************************)
BASE_WALLET == "0x75f39d9Bff76d376F3960028d98F324aAbB6c5e6"
SOLANA_WALLET == "FeB1jqjCFKyQ2vVTPLgYmZu1yLvBWhsGoudP46fhhF8z"
\* None in a field that otherwise holds a string.
NONE == "<None>"
LAMPORTS_PER_SOL == 1000000000
\* 1e18 wei per ETH, as a power of ten (app.py:140)
ETH_DECIMALS == 18

\* One element of result.transfers of alchemy_getAssetTransfers.  hash "" is
\* a missing hash, value NULL a null value (an NFT transfer), otherwise the
\* value is value * 10^exp10; contract "" no
\* rawContract.address, meta says whether 'metadata' is absent, complete
\* ("ok") or lacks blockTimestamp, blockNum "" an absent blockNum.
BaseTx(h, v, asset, contract, to, meta) ==
    [hash |-> h, from |-> BASE_WALLET, to |-> to, value |-> v, exp10 |-> 0,
     asset |-> asset, contract |-> contract, meta |-> meta,
     blockTimestamp |-> "2024-01-01T00:00:00.000Z", blockNum |-> "0x10"]

\* One entry of the getSignaturesForAddress result: signature "" is a missing
\* signature, blockTime NULL a null blockTime, err NONE a null err.
SolInfo(sig, blockTime, err) ==
    [signature |-> sig, blockTime |-> blockTime, slot |-> 7, err |-> err]
\* The 'result' of getTransaction: metaNull is a null meta.
SolBody(metaNull, keys, pre, post) ==
    [metaNull |-> metaNull, accountKeys |-> keys, preBalances |-> pre,
     postBalances |-> post]
\* app.py:271-277: the record fetch_solana_transactions builds.
SolRecord(info, body) ==
    [signature |-> info.signature, blockTime |-> info.blockTime, slot |-> info.slot,
     err |-> info.err, details |-> body]

Range(q) == {q[i] : i \in DOMAIN q}

(***************************************************************************)
(* Chain fetchers                                                          *)
(***************************************************************************)
\* What one requests.post to Alchemy can produce: "exception" (the call
\* raises), "status" (non-200), "badjson" (the body is not JSON), "badshape"
\* (a 200 whose 'result' is null), "error" (an error payload), "nofields"
\* (neither result.transfers nor error), "ok".  items is what the body lists.
RpcKinds == {"exception", "status", "badjson", "badshape", "error", "nofields", "ok"}

\* app.py:183-189 / 209-215: what one response adds to all_txs.
BaseContribution(resp) ==
    CASE resp.kind = "exception" -> [exc |-> "RequestException", txs |-> <<>>]
      [] resp.kind = "badjson" -> [exc |-> "ValueError", txs |-> <<>>]
      [] resp.kind = "badshape" -> [exc |-> "TypeError", txs |-> <<>>]
      [] resp.kind = "ok" -> [exc |-> NoExc, txs |-> resp.items]
      [] OTHER -> [exc |-> NoExc, txs |-> <<>>]

\* app.py:217-224: first occurrence of each non-empty hash, in order.
RECURSIVE UniqueByHash(_, _, _)
UniqueByHash(all, i, seen) ==
    IF i > Len(all) THEN <<>>
    ELSE IF all[i].hash # "" /\ all[i].hash \notin seen
         THEN <<all[i]>> \o UniqueByHash(all, i + 1, seen \cup {all[i].hash})
         ELSE UniqueByHash(all, i + 1, seen)

\* app.py:227-229 / 282-284: except Exception: return []
CatchNothing(r) == r
CatchFetch(r) == IF r.exc # NoExc THEN [exc |-> NoExc, ret |-> <<>>] ELSE r

\* app.py:160-229
fetch_base_transactions(respFrom, respTo) ==
    LET a == BaseContribution(respFrom)
        b == BaseContribution(respTo)
    IN CatchFetch(
         IF a.exc # NoExc THEN [exc |-> a.exc, ret |-> <<>>]
         ELSE IF b.exc # NoExc THEN [exc |-> b.exc, ret |-> <<>>]
         ELSE [exc |-> NoExc, ret |-> UniqueByHash(a.txs \o b.txs, 1, {})])

\* app.py:252  signatures[:10]
AllSignatures(sigs) == sigs
FirstSignatures(sigs) == SubSeq(sigs, 1, Min(Len(sigs), SIG_LIMIT))

\* app.py:252-277: the detail loop over sigs from index i on; details[i] is
\* the response to the getTransaction request for entry i.
RECURSIVE SolDetailLoop(_, _, _, _)
SolDetailLoop(sigs, details, i, acc) ==
    IF i > Len(sigs) THEN [exc |-> NoExc, ret |-> acc]
    ELSE IF sigs[i].signature = "" THEN SolDetailLoop(sigs, details, i + 1, acc)
    ELSE CASE details[i].kind = "exception" -> [exc |-> "RequestException", ret |-> <<>>]
           [] details[i].kind = "badjson" -> [exc |-> "ValueError", ret |-> <<>>]
           [] details[i].kind = "ok" ->
                 SolDetailLoop(sigs, details, i + 1,
                               Append(acc, SolRecord(sigs[i], details[i].body)))
           [] OTHER -> SolDetailLoop(sigs, details, i + 1, acc)

\* Outcomes of one getTransaction request: as RpcKinds, "noresult" being a
\* 200 without 'result' or with a null one; body is what the response carries.
DetailKinds == {"exception", "status", "badjson", "noresult", "ok"}

\* app.py:231-284
fetch_solana_transactions(resp, details) ==
    CatchFetch(
      CASE resp.kind = "exception" -> [exc |-> "RequestException", ret |-> <<>>]
        [] resp.kind = "badjson" -> [exc |-> "ValueError", ret |-> <<>>]
        [] resp.kind = "badshape" -> [exc |-> "TypeError", ret |-> <<>>]
        [] resp.kind = "ok" ->
              SolDetailLoop(FirstSignatures(resp.items), details, 1, <<>>)
        [] OTHER -> [exc |-> NoExc, ret |-> <<>>])

(***************************************************************************)
(* The fetchers on their own: one call on every combination of responses   *)
(***************************************************************************)
MaxItems == 2
\* Signature lists of SIG_LIMIT to SIG_LIMIT + MaxBeyond entries occur too.
MaxBeyond == 2

FetchTxs == {BaseTx(h, 1, "ETH", "", "0xX", "ok") : h \in {"0xa", "0xb", ""}}
FetchInfos == {SolInfo(g, 100, NONE) : g \in {"sigA", "sigB", ""}}
FetchBody == SolBody(FALSE, <<SOLANA_WALLET>>, <<0>>, <<0>>)

BaseResponses == [kind : RpcKinds, items : SeqsUpTo(FetchTxs, MaxItems)]
SigResponses == [kind : RpcKinds, items : SeqsUpTo(FetchInfos, MaxItems)]
DetailResponses == [kind : DetailKinds, body : {FetchBody}]
\* One response for each of the MaxItems signatures there may be.
DetailSeqs == [1..MaxItems -> DetailResponses]

\* A getSignaturesForAddress answer listing n distinct signatures.
LongSigResponse(n) ==
    [kind |-> "ok", items |-> [i \in 1..n |-> SolInfo("s" \o IntToStr(i), 100, NONE)]]

FetchInput(fn, resps, details) ==
    [made |-> FALSE, fn |-> fn, resps |-> resps, details |-> details,
     exc |-> NoExc, ret |-> <<>>]
FetchInit ==
    /\ OracleInit /\ SchedIdle /\ dexCall = NoDexCall
    /\ \/ \E a \in BaseResponses, b \in BaseResponses :
             fetchCall = FetchInput("base", <<a, b>>, <<>>)
       \/ \E a \in SigResponses, d \in DetailSeqs :
             fetchCall = FetchInput("solana", <<a>>, d)
       \/ \E n \in SIG_LIMIT..(SIG_LIMIT + MaxBeyond) :
             \E d \in [1..n -> {[kind |-> "ok", body |-> FetchBody],
                                [kind |-> "noresult", body |-> FetchBody]}] :
                fetchCall = FetchInput("solana", <<LongSigResponse(n)>>, d)

FetchBaseApply ==
    /\ ~fetchCall.made /\ fetchCall.fn = "base"
    /\ LET r == fetch_base_transactions(fetchCall.resps[1], fetchCall.resps[2])
       IN fetchCall' = [fetchCall EXCEPT !.made = TRUE, !.exc = r.exc, !.ret = r.ret]
    /\ UNCHANGED <<schedVars, price_cache, price_cache_time, now, priceCall, lastOk,
                   dexCall>>
FetchSolanaApply ==
    /\ ~fetchCall.made /\ fetchCall.fn = "solana"
    /\ LET r == fetch_solana_transactions(fetchCall.resps[1], fetchCall.details)
       IN fetchCall' = [fetchCall EXCEPT !.made = TRUE, !.exc = r.exc, !.ret = r.ret]
    /\ UNCHANGED <<schedVars, price_cache, price_cache_time, now, priceCall, lastOk,
                   dexCall>>
FetchNext == FetchBaseApply \/ FetchSolanaApply
SpecFetch == FetchInit /\ [][FetchNext]_vars

\* C10: whatever each upstream request produces (an exception, a non-200
\* status, an error payload, a payload without the expected fields), the
\* fetchers raise nothing and return a list, and every record in it comes from
\* a request that succeeded: a failed request contributes none.
C10_FetchersNeverRaise ==
    fetchCall.made =>
        /\ fetchCall.exc = NoExc
        /\ DOMAIN fetchCall.ret = 1..Len(fetchCall.ret)
        /\ fetchCall.fn = "base" =>
              \A rec \in Range(fetchCall.ret) :
                 \E k \in 1..2 : /\ fetchCall.resps[k].kind = "ok"
                                 /\ rec \in Range(fetchCall.resps[k].items)
        /\ fetchCall.fn = "solana" =>
              /\ fetchCall.resps[1].kind # "ok" => fetchCall.ret = <<>>
              /\ \A rec \in Range(fetchCall.ret) :
                    \E i \in 1..Len(fetchCall.resps[1].items) :
                       /\ fetchCall.resps[1].items[i].signature = rec.signature
                       /\ fetchCall.details[i].kind = "ok"
\* The signature list held two entries and the first detail request raised:
\* the call returned an empty list and raised nothing.
C10_Witness ==
    /\ fetchCall.made /\ fetchCall.fn = "solana"
    /\ fetchCall.resps[1].kind = "ok" /\ Len(fetchCall.resps[1].items) = 2
    /\ fetchCall.details[1].kind = "exception"
    /\ fetchCall.resps[1].items[1].signature # ""
    /\ fetchCall.ret = <<>> /\ fetchCall.exc = NoExc

\* C11: the requests of a fetcher are independent.  When the outgoing query of
\* fetch_base_transactions succeeded and the incoming one failed in any way
\* (non-200, error payload, raised exception, unreadable body), the result
\* still holds every outgoing transfer that has a hash; and every signature
\* whose detail request succeeded is in the result of
\* fetch_solana_transactions whatever happened to the other detail requests.
C11_PartialFailureKeeps ==
    fetchCall.made =>
        /\ (fetchCall.fn = "base" /\ fetchCall.resps[1].kind = "ok"
                                  /\ fetchCall.resps[2].kind # "ok") =>
              \A rec \in Range(fetchCall.resps[1].items) :
                 rec.hash # "" => rec \in Range(fetchCall.ret)
        /\ (fetchCall.fn = "solana" /\ fetchCall.resps[1].kind = "ok") =>
              \A i \in 1..Len(fetchCall.resps[1].items) :
                 (fetchCall.resps[1].items[i].signature # ""
                     /\ fetchCall.details[i].kind = "ok") =>
                    \E rec \in Range(fetchCall.ret) :
                       rec.signature = fetchCall.resps[1].items[i].signature

\* C20: fetch_solana_transactions returns at most 10 records; each is for
\* one of the first 10 listed signatures and carries the body its detail
\* request returned; a signature whose detail request answered with a non-200
\* status or without a result is left out, so the result holds exactly the
\* first-10 signatures whose detail request succeeded (none of them when a
\* detail request raised).
C20_SolanaDetailLimit ==
    (fetchCall.made /\ fetchCall.fn = "solana" /\ fetchCall.resps[1].kind = "ok") =>
        LET items == fetchCall.resps[1].items
            first == 1..Min(10, Len(items))
            asked == {i \in first : items[i].signature # ""}
            good == {i \in asked : fetchCall.details[i].kind = "ok"}
            raised == \E i \in asked : fetchCall.details[i].kind \in {"exception", "badjson"}
        IN /\ Len(fetchCall.ret) <= 10
           /\ \A rec \in Range(fetchCall.ret) :
                 \E i \in good : /\ rec.signature = items[i].signature
                                 /\ rec.details = fetchCall.details[i].body
           /\ Len(fetchCall.ret) = IF raised THEN 0 ELSE Cardinality(good)
           /\ (Len(items) = 1 /\ good = {}) => fetchCall.ret = <<>>
\* Of 12 listed signatures the third had no detail result and all others
\* had: 9 records came back, none for the third, the eleventh or the twelfth.
C20_Witness ==
    /\ fetchCall.made /\ fetchCall.fn = "solana"
    /\ Len(fetchCall.resps[1].items) = 12
    /\ \A i \in 1..12 : fetchCall.details[i].kind = IF i = 3 THEN "noresult" ELSE "ok"
    /\ Len(fetchCall.ret) = 9
    /\ \A rec \in Range(fetchCall.ret) : rec.signature \notin {"s3", "s11", "s12"}

(***************************************************************************)
(* Conversions                                                             *)
(***************************************************************************)
RECURSIVE Pow10(_)
Pow10(k) == IF k = 0 THEN 1 ELSE 10 * Pow10(k - 1)
RECURSIVE Zeros(_)
Zeros(k) == IF k <= 0 THEN "" ELSE "0" \o Zeros(k - 1)
\* The decimal digits of n >= 0, most significant first.
RECURSIVE DigitSeq(_)
DigitSeq(n) == IF n < 10 THEN <<Digits[n + 1]>>
               ELSE Append(DigitSeq(n \div 10), Digits[(n % 10) + 1])
\* The characters ds[i..j] as one string.
RECURSIVE Join(_, _, _)
Join(ds, i, j) == IF i > j THEN "" ELSE ds[i] \o Join(ds, i + 1, j)

\* A number is kept as n * 10^e in lowest terms of ten (n has no trailing
\* zero), with the Python type it has: None, an int or a float.  The amounts
\* that occur are exact as floats, so float arithmetic is decimal arithmetic.
RECURSIVE Dec(_, _, _)
Dec(kind, n, e) == IF n = 0 THEN [kind |-> kind, n |-> 0, e |-> 0]
                   ELSE IF n % 10 = 0 THEN Dec(kind, n \div 10, e + 1)
                   ELSE [kind |-> kind, n |-> n, e |-> e]
StrOfNone == [kind |-> "None", n |-> 0, e |-> 0]
StrOfInt(n) == Dec("int", n, 0)
StrOfFloat(n) == Dec("float", n, 0)
\* The k with d = 10^k, for d a power of ten.
RECURSIVE Log10(_)
Log10(d) == IF d < 10 THEN 0 ELSE 1 + Log10(d \div 10)
\* a * b for an integer b, and a / d for d a power of ten, as floats
DecTimes(a, b) == Dec("float", a.n * b, a.e)
DecOver(a, d) == Dec("float", a.n, a.e - Log10(d))
\* a + b as a float
DecPlus(a, b) ==
    LET e == IF a.e <= b.e THEN a.e ELSE b.e
    IN Dec("float", a.n * Pow10(a.e - e) + b.n * Pow10(b.e - e), e)

\* repr of a float n * 10^e: fixed notation while the decimal exponent x of
\* the leading digit has -4 <= x < 16, scientific notation otherwise.
FloatRepr(n, e) ==
    LET ds == DigitSeq(n)
        k == Len(ds)
        x == k - 1 + e
        two(m) == IF m < 10 THEN "0" \o IntToStr(m) ELSE IntToStr(m)
    IN IF n = 0 THEN "0.0"
       ELSE IF x >= 0 - 4 /\ x < 16
            THEN IF e >= 0 THEN Join(ds, 1, k) \o Zeros(e) \o ".0"
                 ELSE IF k + e > 0
                      THEN Join(ds, 1, k + e) \o "." \o Join(ds, k + e + 1, k)
                      ELSE "0." \o Zeros(0 - (k + e)) \o Join(ds, 1, k)
            ELSE ds[1] \o (IF k > 1 THEN "." \o Join(ds, 2, k) ELSE "")
                 \o (IF x >= 0 THEN "e+" \o two(x) ELSE "e-" \o two(0 - x))
\* The characters a TEXT column holds after str(x).
Text(v) == CASE v.kind = "None" -> "None"
             [] v.kind = "int" -> IntToStr(v.n) \o Zeros(v.e)
             [] OTHER -> FloatRepr(v.n, v.e)
\* str(v) of a JSON value: None, or the int v * 10^e
ValueToStr(v, e) == IF v = NULL THEN StrOfNone ELSE Dec("int", v, e)
\* float(s) of a stored value string: fails on 'None'
FloatParses(v) == v.kind # "None"
\* CAST(value AS REAL): text that is no number casts to 0.0
CastReal(v) == IF v.kind = "None" THEN StrOfFloat(0) ELSE Dec("float", v.n, v.e)
\* int(datetime.fromisoformat(s.replace('Z', '+00:00')).timestamp())
IsoToEpoch(s) == CASE s = "2024-01-01T00:00:00.000Z" -> 1704067200
                   [] OTHER -> 0
\* int(s, 16)
HexToInt(s) == CASE s = "0x10" -> 16
                 [] s = "0x1f" -> 31
                 [] OTHER -> 0

(***************************************************************************)
(* Notifier                                                                *)
(***************************************************************************)
\* app.py:134-158.  hook is DISCORD_WEBHOOK.  posted says whether the POST
\* was issued; an exception of requests.post itself is caught (157-158).
send_discord_notification(tx_data, hook) ==
    IF hook = "" THEN [exc |-> NoExc, posted |-> FALSE]
    ELSE IF ~FloatParses(tx_data.value)
         THEN [exc |-> "ValueError", posted |-> FALSE]
    ELSE IF tx_data.from_address = NONE \/ tx_data.to_address = NONE
         THEN [exc |-> "TypeError", posted |-> FALSE]
    ELSE IF tx_data.timestamp = NULL
         THEN [exc |-> "TypeError", posted |-> FALSE]
    ELSE [exc |-> NoExc, posted |-> TRUE]

(***************************************************************************)
(* Transaction store                                                       *)
(***************************************************************************)
Hashes(st) == {r.hash : r \in st}
RowOf(st, h) == CHOOSE r \in st : r.hash = h

\* app.py:294-295 / 361-362: SELECT hash FROM transactions WHERE hash = ?
Exists(st, h) == h \in Hashes(st)

\* app.py:295-297 / 362-364: the hash is stored already; close and return.
OnDuplicateMark(st, h) ==
    {IF r.hash = h THEN [r EXCEPT !.notified = 1] ELSE r : r \in st}
OnDuplicate(st, h) == st

\* app.py:338-346 / 449-457: INSERT and commit; hash is the PRIMARY KEY
\* (app.py:109), so a second row with a stored hash is rejected.
InsertRowUnkeyed(st, row) == [exc |-> NoExc, store |-> st \cup {row}]
InsertRow(st, row) ==
    IF row.hash \in Hashes(st)
    THEN [exc |-> "IntegrityError", store |-> st]
    ELSE [exc |-> NoExc, store |-> st \cup {row}]

(***************************************************************************)
(* Normalizers: process_base_transaction, process_solana_transaction       *)
(***************************************************************************)
Row(h, net, from, to, value, ts, block, status, symbol, address, usd) ==
    [hash |-> h, network |-> net, from_address |-> from, to_address |-> to,
     value |-> value, timestamp |-> ts, block_number |-> block, status |-> status,
     gas_used |-> "0", notified |-> 0, token_symbol |-> symbol,
     token_address |-> address, usd_value |-> usd]

\* What a process_* call hands back: the table and the price cache after it,
\* result "True" / "False" / "raise", and what it did on the way.
Outcome(st, cache, cacheTime, result, exc, existed, inserted, called, posted, committed) ==
    [store |-> st, cache |-> cache, cacheTime |-> cacheTime, result |-> result,
     exc |-> exc, existed |-> existed, inserted |-> inserted,
     notifyCalled |-> called, posted |-> posted,
     committed |-> committed]

\* app.py:338-351 / 449-462: insert, commit, notify, return True.  committed
\* says whether the row was in the table when the notifier was called.
InsertAndNotifyEarly(st, row, cache, cacheTime, hook) ==
    LET n == send_discord_notification(row, hook)
        ins == InsertRow(st, row)
    IN IF n.exc # NoExc
       THEN Outcome(st, cache, cacheTime, "raise", n.exc, FALSE, FALSE, TRUE, n.posted,
                    Exists(st, row.hash))
       ELSE IF ins.exc # NoExc
       THEN Outcome(st, cache, cacheTime, "raise", ins.exc, FALSE, FALSE, TRUE, n.posted,
                    Exists(st, row.hash))
       ELSE Outcome(ins.store, cache, cacheTime, "True", NoExc, FALSE, TRUE, TRUE,
                    n.posted, Exists(st, row.hash))
InsertAndNotify(st, row, cache, cacheTime, hook) ==
    LET ins == InsertRow(st, row)
        n == send_discord_notification(row, hook)
    IN IF ins.exc # NoExc
       THEN Outcome(st, cache, cacheTime, "raise", ins.exc, FALSE, FALSE, FALSE, FALSE,
                    FALSE)
       ELSE IF n.exc # NoExc
       THEN Outcome(ins.store, cache, cacheTime, "raise", n.exc, FALSE, TRUE, TRUE,
                    n.posted, Exists(ins.store, row.hash))
       ELSE Outcome(ins.store, cache, cacheTime, "True", NoExc, FALSE, TRUE, TRUE,
                    n.posted, Exists(ins.store, row.hash))

\* app.py:305-321: usd_value and the price cache after computing it.
BaseUsd(tx, cache, cacheTime, t, priceResp, dexResp) ==
    LET symbol == IF tx.asset = "" THEN "ETH" ELSE tx.asset
        p == get_token_prices(cache, cacheTime, t, t, priceResp)
        tp == get_token_price_dexscreener(dexResp, "base")
        same == [usd |-> StrOfInt(0), cache |-> cache, cacheTime |-> cacheTime]
    IN IF tx.value = NULL THEN same                 \* float(None): caught at 320
       ELSE IF ~(tx.value > 0) THEN same
       ELSE IF symbol = "ETH"
            THEN [usd |-> IF p.ret.ETH > 0
                          THEN DecTimes(ValueToStr(tx.value, tx.exp10), p.ret.ETH)
                          ELSE StrOfInt(0),
                  cache |-> p.cache, cacheTime |-> p.cacheTime]
       ELSE IF tx.contract # ""
            THEN [usd |-> IF tp > 0 THEN DecTimes(ValueToStr(tx.value, tx.exp10), tp)
                          ELSE StrOfInt(0),
                  cache |-> cache, cacheTime |-> cacheTime]
       ELSE same

\* app.py:323-336: tx_data, for a transfer whose metadata, if present, holds
\* blockTimestamp.
BaseRow(tx, t, usd) ==
    Row(tx.hash, "base", tx.from, tx.to, ValueToStr(tx.value, tx.exp10),
        IF tx.meta = "absent" THEN t ELSE IsoToEpoch(tx.blockTimestamp),
        IF tx.blockNum = "" THEN 0 ELSE HexToInt(tx.blockNum),
        "confirmed", IF tx.asset = "" THEN "ETH" ELSE tx.asset, tx.contract, usd)

\* app.py:286-351
process_base_transaction(st, tx, cache, cacheTime, t, priceResp, dexResp, hook) ==
    IF Exists(st, tx.hash)
    THEN Outcome(OnDuplicate(st, tx.hash), cache, cacheTime, "False", NoExc,
                 TRUE, FALSE, FALSE, FALSE, FALSE)
    ELSE LET u == BaseUsd(tx, cache, cacheTime, t, priceResp, dexResp)
         IN IF tx.meta = "noTimestamp"              \* tx['metadata']['blockTimestamp']
            THEN Outcome(st, u.cache, u.cacheTime, "raise", "KeyError",
                         FALSE, FALSE, FALSE, FALSE, FALSE)
            ELSE InsertAndNotify(st, BaseRow(tx, t, u.usd), u.cache, u.cacheTime, hook)

\* app.py:384-392: position of the wallet in accountKeys, 0 when absent
\* (positions count from 1 here, from 0 in the source).
WalletIndex(keys) ==
    IF \E i \in 1..Len(keys) : keys[i] = SOLANA_WALLET
    THEN CHOOSE i \in 1..Len(keys) :
            keys[i] = SOLANA_WALLET /\ \A j \in 1..(i - 1) : keys[j] # SOLANA_WALLET
    ELSE 0

\* app.py:408-412 / 417-421: the first other account whose balance moved the
\* given way ("down": post < pre, "up": post > pre), "" when there is none.
Counterparty(keys, pre, post, our, way) ==
    LET moved(j) == IF way = "down" THEN post[j] < pre[j] ELSE post[j] > pre[j]
        cand == {j \in 1..Min(Len(pre), Len(post)) :
                    moved(j) /\ j # our /\ j <= Len(keys)}
    IN IF cand = {} THEN ""
       ELSE keys[CHOOSE j \in cand : \A k \in cand : j <= k]

\* app.py:353-462
process_solana_transaction(st, tx, cache, cacheTime, t, priceResp, hook) ==
    IF Exists(st, tx.signature)
    THEN Outcome(OnDuplicate(st, tx.signature), cache, cacheTime, "False", NoExc,
                 TRUE, FALSE, FALSE, FALSE, FALSE)
    ELSE IF tx.details.metaNull                     \* None.get('preBalances', [])
    THEN Outcome(st, cache, cacheTime, "raise", "AttributeError",
                 FALSE, FALSE, FALSE, FALSE, FALSE)
    ELSE LET keys == tx.details.accountKeys
             pre == tx.details.preBalances
             post == tx.details.postBalances
             our == WalletIndex(keys)
             found == our >= 1 /\ our <= Len(pre)
         IN IF found /\ our > Len(post)             \* post_balances[our_wallet_index]
            THEN Outcome(st, cache, cacheTime, "raise", "IndexError",
                         FALSE, FALSE, FALSE, FALSE, FALSE)
            ELSE LET change == IF found THEN post[our] - pre[our] ELSE 0
                     sol == DecOver(StrOfFloat(Abs(change)), LAMPORTS_PER_SOL)
                     from == IF ~found THEN ""
                             ELSE IF change > 0
                                  THEN Counterparty(keys, pre, post, our, "down")
                                  ELSE SOLANA_WALLET
                     to == IF ~found THEN ""
                           ELSE IF change > 0 THEN SOLANA_WALLET
                                ELSE Counterparty(keys, pre, post, our, "up")
                     p == get_token_prices(cache, cacheTime, t, t, priceResp)
                     priced == found /\ sol.n > 0
                     usd == IF priced /\ p.ret.SOL > 0
                            THEN DecTimes(sol, p.ret.SOL) ELSE StrOfInt(0)
                     row == Row(tx.signature, "solana",
                                IF from = "" THEN SOLANA_WALLET ELSE from, to,
                                IF found THEN sol ELSE StrOfInt(0),
                                tx.blockTime, tx.slot,
                                IF tx.err = NONE THEN "confirmed" ELSE "failed",
                                "SOL", "", usd)
                 IN InsertAndNotify(st, row,
                                    IF priced THEN p.cache ELSE cache,
                                    IF priced THEN p.cacheTime ELSE cacheTime, hook)

(***************************************************************************)
(* Scheduler: monitor_transactions                                         *)
(***************************************************************************)
MaxCycles == 2

\* app.py:503: except Exception catches every exception class raised here.
CatchesOnlyRequestErrors(exc) == exc = "RequestException"
LoopCatches(exc) == exc # NoExc

\* Where the thread is after exc is raised inside the try block: at the sleep
\* when the handler at 503-504 catches it, gone otherwise.
AfterException(exc) == IF LoopCatches(exc) THEN "sleep" ELSE "terminated"

\* What the chains may report.  Outgoing Base transfers: an NFT transfer
\* (value null, asset null), a transfer whose metadata lacks blockTimestamp,
\* an ERC-20 transfer; incoming: a native transfer, and the same hash reported
\* with other data and no metadata.
OutSamples == {BaseTx("0xb", NULL, NONE, "0xn", "0xX", "ok"),
               BaseTx("0xb", 1, "", "", "0xX", "noTimestamp"),
               BaseTx("0xc", 2, "USDC", "0xu", "0xX", "ok")}
IncSamples == {BaseTx("0xa", 1, "", "", BASE_WALLET, "ok"),
               BaseTx("0xa", 2, "", "", BASE_WALLET, "absent")}
\* Solana: the wallet sent 1 SOL; a transaction with null blockTime in which
\* the wallet does not appear; one whose meta is null.
SolSamples ==
    {[info |-> SolInfo("sigA", 100, NONE),
      body |-> SolBody(FALSE, <<SOLANA_WALLET, "Other">>,
                       <<2 * LAMPORTS_PER_SOL, 0>>,
                       <<LAMPORTS_PER_SOL, LAMPORTS_PER_SOL>>)],
     [info |-> SolInfo("sigB", NULL, NONE),
      body |-> SolBody(FALSE, <<"Other">>, <<0>>, <<0>>)],
     [info |-> SolInfo("sigB", 100, NONE),
      body |-> SolBody(TRUE, <<>>, <<>>, <<>>)]}

Upstreams == [out : SeqsUpTo(OutSamples, 1), inc : SeqsUpTo(IncSamples, 1),
              sol : SeqsUpTo(SolSamples, 1)]

\* Outcomes of the requests made inside an iteration.
LoopRpcKinds == {"ok", "status"}
LoopPriceResponses == {[kind |-> "exception", eth |-> NULL, sol |-> NULL],
                       [kind |-> "ok", eth |-> 3000, sol |-> 100]}
LoopDexResponses ==
    {[kind |-> "status", pairs |-> <<>>],
     [kind |-> "ok", pairs |-> <<[chainId |-> "base", liq |-> 1000, price |-> 1]>>]}

SchedInit ==
    /\ store = {}
    /\ snapshots = <<>>
    /\ webhook \in {"", "https://discord.com/api/webhooks/1"}
    /\ upstream \in Upstreams
    /\ pc = "fetch_base"
    /\ base_txs = <<>>
    /\ solana_txs = <<>>
    /\ cycle = 1
    /\ call = NoCall
    /\ notified = <<>>
    /\ pass = NoPass
    /\ writers = <<>>

Init == OracleInit /\ SchedInit /\ dexCall = NoDexCall /\ fetchCall = NoFetchCall

oracleGhosts == <<priceCall, lastOk, dexCall, fetchCall, writers>>

\* app.py:471  base_txs = fetch_base_transactions()
FetchBase ==
    /\ pc = "fetch_base"
    /\ \E kf \in LoopRpcKinds, kt \in LoopRpcKinds :
          LET r == fetch_base_transactions([kind |-> kf, items |-> upstream.out],
                                           [kind |-> kt, items |-> upstream.inc])
          IN /\ base_txs' = r.ret
             /\ pc' = IF r.exc = NoExc THEN "proc_base" ELSE AfterException(r.exc)
             /\ pass' = [pass EXCEPT !.allOk = @ /\ kf = "ok" /\ kt = "ok",
                                     !.raised = r.exc]
    /\ UNCHANGED <<store, snapshots, price_cache, price_cache_time, now, webhook,
                   upstream, solana_txs, cycle, call, notified, oracleGhosts>>

\* The bookkeeping of one process_* call r on hash h.
Recorded(fn, h, r) ==
    /\ store' = r.store
    /\ price_cache' = r.cache
    /\ price_cache_time' = r.cacheTime
    /\ call' = [made |-> TRUE, fn |-> fn, hash |-> h, existed |-> r.existed,
                inserted |-> r.inserted, result |-> r.result, exc |-> r.exc,
                notifyCalled |-> r.notifyCalled, posted |-> r.posted,
                committed |-> r.committed, storeBefore |-> store]
    /\ notified' = IF r.notifyCalled THEN Append(notified, h) ELSE notified
    /\ pass' = [pass EXCEPT
                  !.inserted = IF r.inserted THEN @ \cup {h} ELSE @,
                  !.notified = IF r.notifyCalled THEN @ \cup {h} ELSE @,
                  !.raised = r.exc]

\* app.py:472-473  one turn of: for tx in base_txs: process_base_transaction(tx)
ProcessBase ==
    /\ pc = "proc_base" /\ base_txs # <<>>
    /\ \E priceResp \in LoopPriceResponses, dexResp \in LoopDexResponses :
          LET r == process_base_transaction(store, Head(base_txs), price_cache,
                                            price_cache_time, now, priceResp,
                                            dexResp, webhook)
          IN /\ Recorded("base", Head(base_txs).hash, r)
             /\ IF r.result = "raise"
                THEN pc' = AfterException(r.exc) /\ base_txs' = <<>>
                ELSE pc' = pc /\ base_txs' = Tail(base_txs)
    /\ UNCHANGED <<snapshots, now, webhook, upstream, solana_txs, cycle, oracleGhosts>>

\* app.py:476  solana_txs = fetch_solana_transactions()
FetchSolana ==
    /\ pc = "proc_base" /\ base_txs = <<>>
    /\ \E ks \in LoopRpcKinds,
          kd \in [1..Len(upstream.sol) -> {"ok", "noresult"}] :
          LET r == fetch_solana_transactions(
                      [kind |-> ks,
                       items |-> [i \in 1..Len(upstream.sol) |-> upstream.sol[i].info]],
                      [i \in 1..Len(upstream.sol) |->
                          [kind |-> kd[i], body |-> upstream.sol[i].body]])
          IN /\ solana_txs' = r.ret
             /\ pc' = IF r.exc = NoExc THEN "proc_solana" ELSE AfterException(r.exc)
             /\ pass' = [pass EXCEPT
                           !.allOk = @ /\ ks = "ok"
                                       /\ \A i \in DOMAIN kd : kd[i] = "ok",
                           !.raised = r.exc]
    /\ UNCHANGED <<store, snapshots, price_cache, price_cache_time, now, webhook,
                   upstream, base_txs, cycle, call, notified, oracleGhosts>>

\* app.py:477-478  one turn of: for tx in solana_txs: process_solana_transaction(tx)
ProcessSolana ==
    /\ pc = "proc_solana" /\ solana_txs # <<>>
    /\ \E priceResp \in LoopPriceResponses :
          LET r == process_solana_transaction(store, Head(solana_txs), price_cache,
                                              price_cache_time, now, priceResp, webhook)
          IN /\ Recorded("solana", Head(solana_txs).signature, r)
             /\ IF r.result = "raise"
                THEN pc' = AfterException(r.exc) /\ solana_txs' = <<>>
                ELSE pc' = pc /\ solana_txs' = Tail(solana_txs)
    /\ UNCHANGED <<snapshots, now, webhook, upstream, base_txs, cycle, oracleGhosts>>

RECURSIVE SumValues(_)
SumValues(rows) ==
    IF rows = {} THEN StrOfFloat(0)
    ELSE LET r == CHOOSE x \in rows : TRUE
         IN DecPlus(CastReal(r.value), SumValues(rows \ {r}))

\* app.py:487-490 / 493-496: COUNT(*), SUM(CAST(value AS REAL)) of a network
SnapshotRowAllNetworks(st, net, t) ==
    [timestamp |-> t, network |-> net, transaction_count |-> Cardinality(st),
     total_value |-> IF SumValues(st).n = 0 THEN StrOfInt(0) ELSE SumValues(st)]
SnapshotRow(st, net, t) ==
    LET rows == {r \in st : r.network = net}
        total == SumValues(rows)
    IN [timestamp |-> t, network |-> net, transaction_count |-> Cardinality(rows),
        total_value |-> IF total.n = 0 THEN StrOfInt(0) ELSE total]

\* app.py:484-498: the rows one commit adds to activity_snapshots, both
\* stamped with the same now.
SnapshotPairBaseOnly(st, t) == <<SnapshotRow(st, "base", t)>>
SnapshotPair(st, t) == <<SnapshotRow(st, "base", t), SnapshotRow(st, "solana", t)>>

\* app.py:480-501
TakeSnapshot ==
    /\ pc = "proc_solana" /\ solana_txs = <<>>
    /\ snapshots' = snapshots \o SnapshotPair(store, now)
    /\ pass' = [pass EXCEPT !.snaps = <<"base", "solana">>]
    /\ pc' = "sleep"
    /\ UNCHANGED <<store, price_cache, price_cache_time, now, webhook, upstream,
                   base_txs, solana_txs, cycle, call, notified, oracleGhosts>>

\* The lists in which two upstream reports differ.
Changed(u, v) == {f \in {"out", "inc", "sol"} : u[f] # v[f]}

\* app.py:506 and back to 468: the thread sleeps, the chains move on (at most
\* one of the three lists changes, or none), and the next iteration starts.
Sleep ==
    /\ pc = "sleep" /\ cycle < MaxCycles
    /\ now' = now + SLEEP_SECONDS
    /\ cycle' = cycle + 1
    /\ pc' = "fetch_base"
    /\ \E u \in Upstreams :
          /\ Cardinality(Changed(u, upstream)) <= 1
          /\ upstream' = u
          /\ pass' = [inserted |-> {}, notified |-> {}, snaps |-> <<>>,
                      raised |-> NoExc, allOk |-> TRUE,
                      repeat |-> (u = upstream /\ pass.allOk),
                      prevRaised |-> pass.raised]
    /\ UNCHANGED <<store, snapshots, price_cache, price_cache_time, webhook,
                   base_txs, solana_txs, call, notified, oracleGhosts>>

Next == FetchBase \/ ProcessBase \/ FetchSolana \/ ProcessSolana \/ TakeSnapshot \/ Sleep
Spec == Init /\ [][Next]_vars

(***************************************************************************)
(* The scheduler when an upstream stops answering                          *)
(***************************************************************************)
\* The timeout each outbound request is given: 5 seconds for the price feeds
\* (app.py:49, 72), none for the Alchemy requests (166, 192, 235, 258) and
\* none for the webhook post (155).
NO_TIMEOUT == NULL
PRICE_TIMEOUT == 5
FETCH_TIMEOUT == NO_TIMEOUT
NOTIFY_TIMEOUT == NO_TIMEOUT

\* A request to an upstream that never answers: requests raises a Timeout
\* once the timeout has passed, and waits without end when none was given.
StalledRequest(timeout) == IF timeout = NO_TIMEOUT THEN "blocked" ELSE "exception"

\* A stalled price feed is the "exception" outcome of get_token_prices.
StalledPriceResponse == [kind |-> StalledRequest(PRICE_TIMEOUT), eth |-> NULL, sol |-> NULL]

\* app.py:166 / 192: Alchemy never answers a request of fetch_base_transactions.
FetchBaseStalls ==
    /\ pc = "fetch_base"
    /\ pc' = IF StalledRequest(FETCH_TIMEOUT) = "blocked" THEN "blocked" ELSE "proc_base"
    /\ base_txs' = <<>>
    /\ pass' = [pass EXCEPT !.allOk = FALSE]
    /\ UNCHANGED <<store, snapshots, price_cache, price_cache_time, now, webhook,
                   upstream, solana_txs, cycle, call, notified, oracleGhosts>>

\* app.py:235 / 258: Alchemy never answers a request of fetch_solana_transactions.
FetchSolanaStalls ==
    /\ pc = "proc_base" /\ base_txs = <<>>
    /\ pc' = IF StalledRequest(FETCH_TIMEOUT) = "blocked" THEN "blocked" ELSE "proc_solana"
    /\ solana_txs' = <<>>
    /\ pass' = [pass EXCEPT !.allOk = FALSE]
    /\ UNCHANGED <<store, snapshots, price_cache, price_cache_time, now, webhook,
                   upstream, base_txs, cycle, call, notified, oracleGhosts>>

\* app.py:155: process_base_transaction stored its row, and Discord never
\* answers the webhook post; the price feed had stalled before.
NotifyStalls ==
    /\ pc = "proc_base" /\ base_txs # <<>>
    /\ \E dexResp \in LoopDexResponses :
          LET r == process_base_transaction(store, Head(base_txs), price_cache,
                                            price_cache_time, now, StalledPriceResponse,
                                            dexResp, webhook)
          IN /\ r.posted /\ r.result = "True"
             /\ Recorded("base", Head(base_txs).hash, r)
    /\ IF StalledRequest(NOTIFY_TIMEOUT) = "blocked"
       THEN pc' = "blocked" /\ base_txs' = base_txs
       ELSE pc' = pc /\ base_txs' = Tail(base_txs)
    /\ UNCHANGED <<snapshots, now, webhook, upstream, solana_txs, cycle, oracleGhosts>>

LiveNext == Next \/ FetchBaseStalls \/ FetchSolanaStalls \/ NotifyStalls
\* The monitor thread keeps running while it has a step to take.
SpecLive == Init /\ [][LiveNext]_vars /\ WF_vars(LiveNext)

(***************************************************************************)
(* The normalizers on their own: one process_* call on one raw record       *)
(***************************************************************************)
MaxAccounts == 3

\* Raw Base transfers: value null, 0, 1 or 2, as reported or followed by 18
\* zeros; asset absent (""), ETH, a token or null; with and without
\* rawContract.address, metadata, blockTimestamp and blockNum.
NormBaseTxs ==
    {[BaseTx("0xa", v, asset, contract, "0xX", meta) EXCEPT !.exp10 = e, !.blockNum = b] :
        v \in {NULL, 0, 1, 2}, e \in {0, ETH_DECIMALS}, asset \in {"", "ETH", "USDC", NONE},
        contract \in {"", "0xu"}, meta \in {"ok", "absent", "noTimestamp"},
        b \in {"", "0x10"}}

\* Balances in lamports: half a SOL, one SOL, two SOL.
NormBalances == {LAMPORTS_PER_SOL \div 2, LAMPORTS_PER_SOL, 2 * LAMPORTS_PER_SOL}
\* Account lists with the wallet first, in the middle, last, alone or absent.
NormKeys == {<<SOLANA_WALLET, "AccA", "AccB">>, <<"AccA", SOLANA_WALLET, "AccB">>,
             <<"AccA", "AccB", SOLANA_WALLET>>, <<SOLANA_WALLET>>, <<"AccA", "AccB">>}
\* Every account held one SOL before; preBalances may list fewer accounts.
NormPre == {[i \in 1..k |-> LAMPORTS_PER_SOL] : k \in 0..MaxAccounts}

NormPriceResponses == {[kind |-> "exception", eth |-> NULL, sol |-> NULL],
                       [kind |-> "ok", eth |-> 3000, sol |-> 100],
                       [kind |-> "ok", eth |-> NULL, sol |-> NULL]}

NormInit ==
    /\ OracleInit /\ dexCall = NoDexCall /\ fetchCall = NoFetchCall
    /\ store = {}
    /\ snapshots = <<>>
    /\ webhook \in {"", "https://discord.com/api/webhooks/1"}
    /\ upstream = NoUpstream
    /\ cycle = 0
    /\ call = NoCall
    /\ notified = <<>>
    /\ pass = NoPass
    /\ writers = <<>>
    /\ \/ /\ pc = "norm_base"
          /\ \E tx \in NormBaseTxs : base_txs = <<tx>>
          /\ solana_txs = <<>>
       \/ /\ pc = "norm_solana"
          /\ base_txs = <<>>
          /\ \E keys \in NormKeys, pre \in NormPre, k \in 0..MaxAccounts,
                blockTime \in {100, NULL}, metaNull \in BOOLEAN :
                \E post \in [1..k -> NormBalances] :
                   solana_txs = <<SolRecord(SolInfo("sigA", blockTime, NONE),
                                            SolBody(metaNull, keys, pre, post))>>

\* process_base_transaction(tx) on the one record, which stays in base_txs.
NormBase ==
    /\ pc = "norm_base"
    /\ \E priceResp \in NormPriceResponses, dexResp \in LoopDexResponses :
          Recorded("base", Head(base_txs).hash,
                   process_base_transaction(store, Head(base_txs), price_cache,
                                            price_cache_time, now, priceResp,
                                            dexResp, webhook))
    /\ pc' = "done"
    /\ UNCHANGED <<snapshots, now, webhook, upstream, base_txs, solana_txs, cycle,
                   oracleGhosts>>

\* process_solana_transaction(tx) on the one record, which stays in solana_txs.
NormSolana ==
    /\ pc = "norm_solana"
    /\ \E priceResp \in NormPriceResponses :
          Recorded("solana", Head(solana_txs).signature,
                   process_solana_transaction(store, Head(solana_txs), price_cache,
                                              price_cache_time, now, priceResp,
                                              webhook))
    /\ pc' = "done"
    /\ UNCHANGED <<snapshots, now, webhook, upstream, base_txs, solana_txs, cycle,
                   oracleGhosts>>

NormNext == NormBase \/ NormSolana
SpecNorm == NormInit /\ [][NormNext]_vars

(***************************************************************************)
(* Several writers: process_base_transaction run statement by statement by *)
(* threads that share the store.  The program starts one such thread       *)
(* (app.py:599); more of them is the case of a second scheduler instance.   *)
(***************************************************************************)
MaxWriters == 2

\* The same hash reported with two different values, and another hash.
RaceTxs == {BaseTx("0xa", 1, "", "", BASE_WALLET, "ok"),
            BaseTx("0xa", 2, "", "", BASE_WALLET, "absent"),
            BaseTx("0xc", 1, "", "", BASE_WALLET, "ok")}
\* What a thread has to process: one or two transfers.
RaceTodo == {q \in SeqsUpTo(RaceTxs, 2) : q # <<>>}

\* A thread about to call process_base_transaction on the head of todo.  row
\* is tx_data once built; tried are the hashes whose INSERT it executed,
\* rejected those the primary key refused, results what its calls returned.
Writer(todo) == [pc |-> "check", todo |-> todo, row |-> Row("", "", "", "", StrOfNone,
                                                            0, 0, "", "", "", StrOfNone),
                 tried |-> {}, rejected |-> {}, results |-> <<>>, exc |-> NoExc]

RaceInit ==
    /\ OracleInit /\ dexCall = NoDexCall /\ fetchCall = NoFetchCall
    /\ store = {}
    /\ snapshots = <<>>
    /\ webhook \in {"", "https://discord.com/api/webhooks/1"}
    /\ upstream = NoUpstream
    /\ pc = "race"
    /\ base_txs = <<>>
    /\ solana_txs = <<>>
    /\ cycle = 0
    /\ call = NoCall
    /\ notified = <<>>
    /\ pass = NoPass
    /\ \E k \in 1..MaxWriters : \E todos \in [1..k -> RaceTodo] :
          writers = [w \in 1..k |-> Writer(todos[w])]

\* The call returned result; the thread goes on to its next transfer, or, on
\* an exception, leaves its loop (app.py:472-473, 503).
WriterReturns(wr, result, exc) ==
    [wr EXCEPT !.results = Append(@, result), !.exc = exc,
               !.todo = IF result = "raise" THEN <<>> ELSE Tail(@),
               !.pc = IF result = "raise" \/ Len(wr.todo) = 1 THEN "done" ELSE "check"]

raceFrame == <<snapshots, now, webhook, upstream, pc, base_txs, solana_txs, cycle,
               call, pass, priceCall, lastOk, dexCall, fetchCall>>

\* app.py:294-297: the existence check.
WriterCheck(w) ==
    /\ writers[w].pc = "check"
    /\ writers' = [writers EXCEPT ![w] =
                     IF Exists(store, Head(@.todo).hash)
                     THEN WriterReturns(@, "False", NoExc)
                     ELSE [@ EXCEPT !.pc = "insert"]]
    /\ store' = IF Exists(store, Head(writers[w].todo).hash)
                THEN OnDuplicate(store, Head(writers[w].todo).hash) ELSE store
    /\ UNCHANGED <<raceFrame, price_cache, price_cache_time, notified>>

\* app.py:299-346: usd_value, tx_data, INSERT and commit.
WriterInsert(w) ==
    /\ writers[w].pc = "insert"
    /\ \E priceResp \in LoopPriceResponses, dexResp \in LoopDexResponses :
          LET tx == Head(writers[w].todo)
              u == BaseUsd(tx, price_cache, price_cache_time, now, priceResp, dexResp)
              row == BaseRow(tx, now, u.usd)
              ins == InsertRow(store, row)
          IN /\ price_cache' = u.cache
             /\ price_cache_time' = u.cacheTime
             /\ store' = ins.store
             /\ writers' = [writers EXCEPT ![w] =
                   IF ins.exc # NoExc
                   THEN WriterReturns([@ EXCEPT !.tried = @ \cup {tx.hash},
                                                !.rejected = @ \cup {tx.hash}],
                                      "raise", ins.exc)
                   ELSE [@ EXCEPT !.pc = "notify", !.row = row,
                                  !.tried = @ \cup {tx.hash}]]
    /\ UNCHANGED <<raceFrame, notified>>

\* app.py:349-351: the notification, then return True.
WriterNotify(w) ==
    /\ writers[w].pc = "notify"
    /\ LET n == send_discord_notification(writers[w].row, webhook)
       IN writers' = [writers EXCEPT ![w] =
             IF n.exc # NoExc THEN WriterReturns(@, "raise", n.exc)
             ELSE WriterReturns(@, "True", NoExc)]
    /\ notified' = Append(notified, writers[w].row.hash)
    /\ UNCHANGED <<raceFrame, store, price_cache, price_cache_time>>

CheckStep == \E w \in DOMAIN writers : WriterCheck(w)
InsertStep == \E w \in DOMAIN writers : WriterInsert(w)
NotifyStep == \E w \in DOMAIN writers : WriterNotify(w)
RaceNext == CheckStep \/ InsertStep \/ NotifyStep
SpecRace == RaceInit /\ [][RaceNext]_vars

(***************************************************************************)
(* Claims about the store, the notifier and the scheduler loop             *)
(***************************************************************************)
\* C1: the first process_* call for a hash that reaches the insert returns
\* True and leaves one row with that hash; a call for a stored hash returns
\* False and leaves the table as it was; no two rows share a hash.
C1_FirstTrueLaterFalse ==
    /\ (call.made /\ call.inserted) =>
          call.result = "True" /\ Cardinality({r \in store : r.hash = call.hash}) = 1
    /\ (call.made /\ call.existed) =>
          call.result = "False" /\ store = call.storeBefore
    /\ \A r1 \in store, r2 \in store : r1.hash = r2.hash => r1 = r2

\* C2: a stored row is never changed or deleted: every row of the table is,
\* with all its fields, in the table after every step, also when the hash is
\* fetched again with other data or at another price.
C2_RowsImmutable == [][\A r \in store : r \in store']_vars
\* In the second iteration the chain reported hash 0xa with value 2 while the
\* stored row, inserted with value 1, was processed again.
C2_Witness ==
    /\ cycle = 2 /\ call.made /\ call.existed /\ call.hash = "0xa"
    /\ Len(upstream.inc) = 1 /\ upstream.inc[1].value = 2
    /\ Exists(store, "0xa") /\ RowOf(store, "0xa").value = StrOfInt(1)

\* C3: an iteration that runs against the same upstream data as the one
\* before it (nothing changed upstream, every request of both answered)
\* inserts no row and calls the notifier for none.
C3_SecondPassIdempotent ==
    (pc = "sleep" /\ pass.repeat /\ pass.allOk) =>
        pass.inserted = {} /\ pass.notified = {}

\* C4: send_discord_notification is called exactly for the rows a call newly
\* inserted, after the insert was committed: never for a hash already stored,
\* at most once per hash, and a call that returned True left its row stored.
C4_NotifyOnlyNewRows ==
    /\ \A i \in DOMAIN notified, j \in DOMAIN notified :
          notified[i] = notified[j] => i = j
    /\ Range(notified) = Hashes(store)
    /\ call.made =>
          /\ call.notifyCalled <=> call.inserted
          /\ call.notifyCalled => call.committed /\ ~call.existed
          /\ call.result = "True" => Exists(store, call.hash)
\* A hash notified in the first iteration was processed again in the second
\* and no second notification was made.
C4_Witness ==
    /\ cycle = 2 /\ call.made /\ call.existed /\ ~call.notifyCalled
    /\ call.hash \in Range(notified)
    /\ webhook # ""

\* C5: no exception raised inside an iteration ends the loop: the step that
\* raises leaves the thread at the sleep, and from the sleep the only way on
\* is the start of the next iteration.
C5_LoopSurvivesFailure ==
    [][/\ pc' # "terminated"
       /\ (pass'.raised # NoExc => pc' = "sleep")
       /\ (pc = "sleep" => pc' = "fetch_base" /\ cycle' = cycle + 1)]_vars
\* The iteration after one that raised ran through to its snapshot.
C5_Witness ==
    /\ pass.prevRaised # NoExc /\ pc = "sleep" /\ pass.snaps = <<"base", "solana">>

\* C6: at the end of every iteration each network has one snapshot per
\* iteration run so far: none was skipped and none doubled.
C6_OneSnapshotPerCycle ==
    pc = "sleep" =>
        \A net \in {"base", "solana"} :
           Cardinality({i \in DOMAIN snapshots : snapshots[i].network = net}) = cycle

\* C12: the notifier raises nothing into the pipeline: every process_* call
\* that reached send_discord_notification (so had newly inserted its record,
\* whatever its value string, timestamp and addresses) got a normal return
\* from it and returned True, and the iteration went on.
C12_NotifierNeverRaises ==
    (call.made /\ call.notifyCalled) =>
        /\ call.exc = NoExc
        /\ call.result = "True"
        /\ pc # "terminated"

(***************************************************************************)
(* Claims about one normalizer call                                        *)
(***************************************************************************)
\* C13: a raw record with a new hash is stored whatever its shape (metadata
\* without blockTimestamp, no blockNum, null meta, postBalances shorter than
\* preBalances, wallet not among the accounts): the call raises nothing before
\* the row is stored, and absent fields are defaulted (block number 0,
\* timestamp the current time).
C13_ShapeSurprisesStored ==
    (pc = "done" /\ call.made /\ ~call.existed) =>
        /\ call.inserted /\ Exists(store, call.hash)
        /\ call.fn = "base" =>
              LET tx == Head(base_txs)
                  row == RowOf(store, tx.hash)
              IN /\ tx.blockNum = "" => row.block_number = 0
                 /\ tx.meta = "absent" => row.timestamp = now

\* C14: a Solana transaction whose account list does not hold the wallet is
\* stored, with from_address and to_address both empty, value zero and
\* usd_value "0".
C14_WalletAbsentDefaults ==
    (pc = "done" /\ call.made /\ call.fn = "solana"
        /\ WalletIndex(Head(solana_txs).details.accountKeys) = 0) =>
        /\ call.inserted /\ Exists(store, call.hash)
        /\ LET row == RowOf(store, call.hash)
           IN /\ row.from_address = "" /\ row.to_address = ""
              /\ Text(row.value) = "0"
              /\ Text(row.usd_value) = "0"

\* C15: for a stored native Base transfer (token_symbol ETH) usd_value is the
\* amount in ETH (the stored value over 1e18) times the ETH price the generic
\* feed reported, and "0" when the value is zero or null or the feed yields
\* no price; so value "1000000000000000000" at a price of 3000 is stored with
\* usd_value "3000.0".
C15_NativeUsd ==
    (pc = "done" /\ call.made /\ call.fn = "base" /\ call.inserted
        /\ RowOf(store, call.hash).token_symbol = "ETH") =>
        LET tx == Head(base_txs)
            row == RowOf(store, call.hash)
            price == IF price_cache = EmptyDict THEN 0 ELSE price_cache.ETH
        IN /\ (Text(row.value) = "1000000000000000000" /\ price = 3000) =>
                 Text(row.usd_value) = "3000.0"
           /\ row.usd_value =
                 IF tx.value = NULL \/ tx.value = 0 \/ price = 0 THEN StrOfInt(0)
                 ELSE Dec("float", row.value.n * price, row.value.e - ETH_DECIMALS)

\* C19: with the wallet at index i of a stored Solana transaction and
\* d = post[i] - pre[i]: the stored value is |d| / 1e9 SOL; for d > 0
\* to_address is the wallet and from_address the account at the lowest index
\* j # i with post[j] < pre[j]; for d < 0 from_address is the wallet and
\* to_address the account at the lowest j # i with post[j] > pre[j]; for d = 0
\* the transaction is neither: no recipient is attributed and the wallet is
\* not named as the receiver.
C19_Direction ==
    (pc = "done" /\ call.made /\ call.fn = "solana" /\ call.inserted
        /\ WalletIndex(Head(solana_txs).details.accountKeys) >= 1
        /\ WalletIndex(Head(solana_txs).details.accountKeys)
              <= Len(Head(solana_txs).details.preBalances)) =>
        LET body == Head(solana_txs).details
            keys == body.accountKeys
            pre == body.preBalances
            post == body.postBalances
            i == WalletIndex(keys)
            d == post[i] - pre[i]
            row == RowOf(store, call.hash)
            others == {j \in 1..Len(keys) : j # i /\ j <= Len(pre) /\ j <= Len(post)}
            down == {j \in others : post[j] < pre[j]}
            up == {j \in others : post[j] > pre[j]}
            lowest(S) == CHOOSE j \in S : \A k \in S : j <= k
        IN /\ row.value = DecOver(StrOfFloat(Abs(d)), LAMPORTS_PER_SOL)
           /\ d > 0 => /\ row.to_address = SOLANA_WALLET
                       /\ down # {} => row.from_address = keys[lowest(down)]
           /\ d < 0 => /\ row.from_address = SOLANA_WALLET
                       /\ up # {} => row.to_address = keys[lowest(up)]
           /\ d = 0 => row.to_address = ""

(***************************************************************************)
(* Claims about several writers                                            *)
(***************************************************************************)
\* C17: an INSERT refused by the primary key (another writer stored the hash
\* between this call's existence check and its INSERT) counts as "already
\* exists": the call returns False, raises nothing, and the thread goes on
\* with its remaining transfers.
C17_RejectedInsertIsDuplicate ==
    \A w \in DOMAIN writers :
       writers[w].rejected # {} =>
          /\ writers[w].exc = NoExc
          /\ \A i \in DOMAIN writers[w].results : writers[w].results[i] # "raise"

\* C18: whatever the interleaving of the writers, no two rows share a hash,
\* every hash whose INSERT a writer executed has its one row, and the
\* notifier is called at most once per hash; and a writer that is alone never
\* has an INSERT refused by the primary key.
C18_OneRowOneNotification ==
    /\ \A r1 \in store, r2 \in store : r1.hash = r2.hash => r1 = r2
    /\ \A w \in DOMAIN writers : writers[w].tried \subseteq Hashes(store)
    /\ \A i \in DOMAIN notified, j \in DOMAIN notified :
          notified[i] = notified[j] => i = j
    /\ Range(notified) \subseteq Hashes(store)
    /\ Len(writers) = 1 => writers[1].rejected = {}
\* Two writers both found hash 0xa absent, then both executed the INSERT: one
\* stored the row and notified, the other was refused.
C18_Witness ==
    /\ Len(writers) = 2 /\ webhook # ""
    /\ \A w \in DOMAIN writers : writers[w].pc = "done"
    /\ \E w \in DOMAIN writers, v \in DOMAIN writers :
          /\ w # v
          /\ "0xa" \in writers[w].rejected
          /\ "0xa" \in writers[v].tried \ writers[v].rejected
    /\ Cardinality({r \in store : r.hash = "0xa"}) = 1
    /\ Cardinality({i \in DOMAIN notified : notified[i] = "0xa"}) = 1

(***************************************************************************)
(* Claims about stalled upstreams                                          *)
(***************************************************************************)
\* C16: no outbound request can hold the scheduler for ever: also when an
\* upstream (Alchemy, a price feed, Discord) never answers, every iteration
\* that starts comes to its end, the sleep before the next iteration.
C16_NoWedge == (pc = "fetch_base") ~> (pc = "sleep")

(***************************************************************************)
(* Claims about the activity snapshots                                     *)
(***************************************************************************)
\* How many snapshot rows of a network the table holds.
SnapshotCount(net) == Cardinality({i \in DOMAIN snapshots : snapshots[i].network = net})

\* C21: snapshots are committed in pairs: the table always holds as many
\* 'base' as 'solana' rows, a 'base' row being followed by the 'solana' row of
\* the same timestamp; and every step leaves the rows there are as they were,
\* only appending.
C21_SnapshotPairs ==
    /\ [](/\ SnapshotCount("base") = SnapshotCount("solana")
          /\ \A i \in DOMAIN snapshots :
                i % 2 = 1 => /\ i + 1 \in DOMAIN snapshots
                             /\ snapshots[i].network = "base"
                             /\ snapshots[i + 1].network = "solana"
                             /\ snapshots[i + 1].timestamp = snapshots[i].timestamp)
    /\ [][/\ Len(snapshots') >= Len(snapshots)
          /\ SubSeq(snapshots', 1, Len(snapshots)) = snapshots]_vars
\* Two iterations each committed their pair, 300 seconds apart.
C21_Witness ==
    /\ Len(snapshots) = 4
    /\ snapshots[1].timestamp = snapshots[2].timestamp
    /\ snapshots[3].timestamp = snapshots[1].timestamp + 300
    /\ snapshots[4].timestamp = snapshots[3].timestamp

\* C22: the transaction_count of a snapshot is the number of rows of its
\* network stored when it is taken, the rows inserted earlier in the same
\* iteration included; so the counts of a network never decrease from one
\* snapshot to the next.
C22_SnapshotCounts ==
    /\ (pc = "sleep" /\ pass.snaps # <<>>) =>
          /\ Len(snapshots) >= 2
          /\ \A i \in {Len(snapshots) - 1, Len(snapshots)} :
                snapshots[i].transaction_count =
                   Cardinality({r \in store : r.network = snapshots[i].network})
          /\ pass.inserted \subseteq Hashes(store)
    /\ \A i \in DOMAIN snapshots, j \in DOMAIN snapshots :
          (i < j /\ snapshots[i].network = snapshots[j].network) =>
             snapshots[i].transaction_count <= snapshots[j].transaction_count
\* The second iteration stored a Base row and a Solana row was there already:
\* its 'base' snapshot counts one row more than the first iteration's, and
\* each network's count leaves the other network's rows out.
C22_Witness ==
    /\ pc = "sleep" /\ cycle = 2 /\ Len(snapshots) = 4
    /\ \E h \in pass.inserted : RowOf(store, h).network = "base"
    /\ snapshots[1].transaction_count = 0 /\ snapshots[3].transaction_count = 1
    /\ snapshots[2].transaction_count = 1 /\ snapshots[4].transaction_count = 1

====
